---- MODULE Spec2Model ----
(***************************************************************************)
(* The relayer's accounting core: the three tables of create-tables.sql,   *)
(* the storage functions of db-service.ts and the request handlers of      *)
(* relayer.ts.  Every awaited SQL statement is one atomic step of the      *)
(* database; the handler code that runs between two statements touches     *)
(* only the request's own locals (and reads the clock), so it is folded    *)
(* into the step of the statement whose result it consumes.  Requests are  *)
(* served concurrently: the steps of different requests interleave freely. *)
(* Amounts are integers (the code uses JS numbers over DECIMAL(36,18)).    *)
(* The external collaborators (chain RPC, address derivation, public key   *)
(* parsing) are taken to answer without failing, except the deposit lookup *)
(* of /shield/notify, whose answer is an input.                            *)
(***************************************************************************)
EXTENDS Integers, Sequences, FiniteSets, TLC

\* ---- bounds of the model
NumProcs == 2
MaxOps == 3
MaxTime == 1

Procs == 1..NumProcs
Owners == {"A", "B"}
Mints == {"SOL"}
TwoMints == {"SOL", "EPjFWdd5"}
Amounts == {-1, 0, 1}
PositiveAmounts == {0, 1, 2}
DepositSigs == {<<"deposit", 1>>}
Decimals == {9}
Keys == Owners \X (Mints \cup TwoMints)

NoRecipient == "none"
NoSignature == <<"none", 0>>

VARIABLES
  balances,   \* table private_balances: (owner, mint) -> row, rows that exist
  pools,      \* table token_pools: mint -> row, rows that exist
  log,        \* table transactions, in insertion order
  now,        \* the latest value Date.now() has returned
  pc,         \* per request slot: the statement the request waits on
  req,        \* per request slot: the handler's locals
  eff,        \* per request slot: what the request has done so far (history)
  applied,    \* per balance row: credits minus debits of the calls that succeeded (history)
  started     \* number of requests received so far

vars == <<balances, pools, log, now, pc, req, eff, applied, started>>

IdleReq ==
  [op |-> "none", owner |-> "A", recipient |-> NoRecipient, mint |-> "SOL",
   amount |-> 0, decimals |-> 0, signature |-> NoSignature,
   curExists |-> FALSE, cur |-> 0, newBalance |-> 0,
   tokenSymbol |-> "UNKNOWN", timestamp |-> 0, error |-> "none"]

\* debited/credited: the debit (credit) statement has run; debitExact/creditExact: it
\* changed the stored balance by exactly the amount; fullDebit: the debit read a
\* positive balance equal to its amount; overlap: the writes <<request, isAddition>>
\* to the row this request has read and not yet written; racedDebit: overlap at the
\* debit's write;
\* pooled: the pool-total statement has run; poolExact: it changed a total by the
\* amount; createdPool: the request inserted a pool row; logged: its log row is in;
\* overdrawn: its debit read an existing row holding less than the amount; noRow:
\* its debit found no row; dupSig: its signature was in the log when it recorded;
\* deposit: the deposit signature its credit was made for (shield)
NoEff ==
  [overdrawn |-> FALSE, noRow |-> FALSE, dupSig |-> FALSE,
   debited |-> FALSE, debitExact |-> FALSE, fullDebit |-> FALSE, racedDebit |-> {},
   credited |-> FALSE, creditExact |-> FALSE,
   pooled |-> FALSE, poolExact |-> FALSE, createdPool |-> FALSE,
   logged |-> FALSE, overlap |-> {}, deposit |-> NoSignature]

Init ==
  /\ balances = <<>>
  /\ pools = <<>>
  /\ log = <<>>
  /\ now = 0
  /\ pc = [p \in Procs |-> "idle"]
  /\ req = [p \in Procs |-> IdleReq]
  /\ eff = [p \in Procs |-> NoEff]
  /\ applied = [k \in Keys |-> 0]
  /\ started = 0

\* ---- pure helpers

\* relayer.ts: tokenMint.slice(0, 4)
Slice4(m) == IF m = "EPjFWdd5" THEN "EPjF" ELSE m

\* relayer.ts: tokenSymbol resolution after getTokenPool
TokenSymbol(m) ==
  IF m \in DOMAIN pools THEN (IF m = "SOL" THEN "SOL" ELSE Slice4(m)) ELSE "UNKNOWN"

\* db-service.ts updatePrivateBalance: what a call adds to the balance
Delta(amount, isAddition) == IF isAddition THEN amount ELSE 0 - amount

\* db-service.ts updatePrivateBalance: newBalance
NewBalance(cur, amount, isAddition) ==
  IF isAddition THEN cur + amount ELSE cur - amount

\* a variant of UpbOutcome that tests the balance read, not the balance computed
UpbOutcomeTestsCurrent(exists, cur, amount, isAddition) ==
  IF exists
  THEN (IF cur < 0 THEN "insufficient" ELSE "update")
  ELSE (IF isAddition THEN "insert" ELSE "nonexistent")

\* a variant of UpbOutcome without the final else: a missing row is always inserted
UpbOutcomeAlwaysInserts(exists, cur, amount, isAddition) ==
  IF exists
  THEN (IF NewBalance(cur, amount, isAddition) < 0 THEN "insufficient" ELSE "update")
  ELSE "insert"

\* db-service.ts updatePrivateBalance: which branch the call takes after the read
UpbOutcome(exists, cur, amount, isAddition) ==
  IF exists
  THEN (IF NewBalance(cur, amount, isAddition) < 0 THEN "insufficient" ELSE "update")
  ELSE (IF isAddition THEN "insert" ELSE "nonexistent")

\* the log holds a row with signature sig
InLog(sig) == \E i \in DOMAIN log : log[i].signature = sig

\* a variant of SignatureTaken for a signature column without UNIQUE
SignatureNeverTaken(sig) == FALSE

\* create-tables.sql: signature TEXT NOT NULL UNIQUE
SignatureTaken(sig) == InLog(sig)

\* create-tables.sql: UNIQUE(owner, token_mint)
BalanceRowExists(k) == k \in DOMAIN balances

\* create-tables.sql: token_pools rows, one per token_mint at most
PoolRowExists(m) == m \in DOMAIN pools

\* a variant of MintTaken for a token_mint column without UNIQUE
MintNeverTaken(m) == FALSE

\* create-tables.sql: token_mint TEXT NOT NULL UNIQUE
MintTaken(m) == PoolRowExists(m)

\* the row a balance statement of request p is aimed at
TargetOwner(p) == IF pc[p] \in {"sd_cread", "sd_cwrite"} THEN req[p].recipient ELSE req[p].owner
TargetKey(p) == <<TargetOwner(p), req[p].mint>>

WritePcs == {"sh_write", "sd_dwrite", "sd_cwrite", "un_write"}

\* a slot is free once its request has been answered (200, 400 or 500)
Free == {"idle", "accepted", "failed", "rejected"}

\* the history of a new request in slot p: nothing done yet, and the request that
\* held the slot before is forgotten
Fresh(p) ==
  [q \in Procs |->
     IF q = p THEN NoEff
     ELSE [eff[q] EXCEPT !.overlap = @ \ ({p} \X BOOLEAN),
                         !.racedDebit = @ \ ({p} \X BOOLEAN)]]

\* the locals of an answered request are gone; what it was and how it ended remain
Answered(p, msg) == [IdleReq EXCEPT !.op = req[p].op, !.error = msg]

\* the handler's catch block: the 500 response
Fail(p, msg) ==
  /\ pc' = [pc EXCEPT ![p] = "failed"]
  /\ req' = [req EXCEPT ![p] = Answered(p, msg)]

\* the handler goes on to its next statement with locals r, or sends the 200 response
Continue(p, next, r) ==
  /\ pc' = [pc EXCEPT ![p] = next]
  /\ req' = [req EXCEPT ![p] = IF next = "accepted" THEN Answered(p, "none") ELSE r]

\* a variant of FirstStatement whose shield handler writes the log before the ledger
FirstStatementLogFirst(op) ==
  CASE op = "shield" -> "sh_sym"
    [] op = "send" -> "sd_dread"
    [] op = "unshield" -> "un_read"
    [] OTHER -> "pl_get"

\* relayer.ts: the statement each handler issues first
FirstStatement(op) ==
  CASE op = "shield" -> "sh_read"
    [] op = "send" -> "sd_dread"
    [] op = "unshield" -> "un_read"
    [] OTHER -> "pl_get"

\* Date.now(): the values a read of the clock may return (time never goes back; it
\* is observed only where the code reads it, so it advances there)
DateNow == {t \in {now, now + 1} : t <= MaxTime}

\* relayer.ts: `simulated-send-${Date.now()}`, `simulated-unshield-${Date.now()}`
Simulated(kind, t) == <<kind, t>>

\* ---- request arrival

\* relayer.ts POST /shield/notify: parameter check and deposit lookup
ShieldNotify(p, amounts, mints) ==
  /\ pc[p] \in Free
  /\ started < MaxOps
  /\ eff' = Fresh(p)
  /\ started' = started + 1
  /\ \E sig \in DepositSigs, m \in mints, a \in amounts, o \in Owners, txFound \in BOOLEAN :
       IF a = 0 \/ ~txFound
       THEN /\ pc' = [pc EXCEPT ![p] = "rejected"]
            /\ req' = [req EXCEPT ![p] = [IdleReq EXCEPT !.op = "shield"]]
       ELSE /\ pc' = [pc EXCEPT ![p] = FirstStatement("shield")]
            /\ req' = [req EXCEPT ![p] = [IdleReq EXCEPT !.op = "shield", !.owner = o, !.mint = m,
                                                       !.amount = a, !.signature = sig]]
  /\ UNCHANGED <<balances, pools, log, now, applied>>

\* relayer.ts POST /send: parameter check
Send(p, amounts, mints) ==
  /\ pc[p] \in Free
  /\ started < MaxOps
  /\ eff' = Fresh(p)
  /\ started' = started + 1
  /\ \E m \in mints, a \in amounts, s \in Owners, r \in Owners :
       IF a = 0
       THEN /\ pc' = [pc EXCEPT ![p] = "rejected"]
            /\ req' = [req EXCEPT ![p] = [IdleReq EXCEPT !.op = "send"]]
       ELSE /\ pc' = [pc EXCEPT ![p] = FirstStatement("send")]
            /\ req' = [req EXCEPT ![p] = [IdleReq EXCEPT !.op = "send", !.owner = s, !.recipient = r,
                                                       !.mint = m, !.amount = a]]
  /\ UNCHANGED <<balances, pools, log, now, applied>>

\* relayer.ts POST /unshield: parameter check
Unshield(p, amounts, mints) ==
  /\ pc[p] \in Free
  /\ started < MaxOps
  /\ eff' = Fresh(p)
  /\ started' = started + 1
  /\ \E m \in mints, a \in amounts, s \in Owners :
       IF a = 0
       THEN /\ pc' = [pc EXCEPT ![p] = "rejected"]
            /\ req' = [req EXCEPT ![p] = [IdleReq EXCEPT !.op = "unshield"]]
       ELSE /\ pc' = [pc EXCEPT ![p] = FirstStatement("unshield")]
            /\ req' = [req EXCEPT ![p] = [IdleReq EXCEPT !.op = "unshield", !.owner = s,
                                                       !.mint = m, !.amount = a]]
  /\ UNCHANGED <<balances, pools, log, now, applied>>

\* relayer.ts POST /pool/create
PoolCreate(p, mints) ==
  /\ pc[p] \in Free
  /\ started < MaxOps
  /\ eff' = Fresh(p)
  /\ started' = started + 1
  /\ \E m \in mints, d \in Decimals :
       /\ req' = [req EXCEPT ![p] = [IdleReq EXCEPT !.op = "pool", !.mint = m, !.decimals = d]]
       /\ pc' = [pc EXCEPT ![p] = FirstStatement("pool")]
  /\ UNCHANGED <<balances, pools, log, now, applied>>

\* ---- updatePrivateBalance, its two statements

\* db-service.ts updatePrivateBalance: getPrivateBalance and the branch on its result
UpbRead(p, isAddition, next) ==
  LET k == TargetKey(p)
      exists == BalanceRowExists(k)
      cur == IF exists THEN balances[k].balance ELSE 0
      out == UpbOutcome(exists, cur, req[p].amount, isAddition)
  IN /\ IF out = "insufficient" THEN Fail(p, "Insufficient private balance")
        ELSE IF out = "nonexistent" THEN Fail(p, "Cannot deduct from non-existent balance")
        ELSE Continue(p, next, [req[p] EXCEPT !.curExists = exists, !.cur = cur,
                                 !.newBalance = NewBalance(cur, req[p].amount, isAddition)])
     /\ eff' = [eff EXCEPT ![p].overlap = {},
                           ![p].overdrawn = (~isAddition /\ exists /\ req[p].amount > cur),
                           ![p].noRow = (~isAddition /\ ~exists)]
     /\ UNCHANGED <<balances, pools, log, now, applied, started>>

\* the history of a write of request p to row k: its own effect, and the mark it
\* leaves on every other request that has read row k and not yet written it
Written(p, k, isAddition, delta) ==
  [q \in Procs |->
     IF q = p
     THEN IF isAddition
          THEN [eff[p] EXCEPT !.credited = TRUE, !.creditExact = (delta = req[p].amount),
                              !.overlap = {},
                              !.deposit = IF req[p].op = "shield" THEN req[p].signature
                                          ELSE NoSignature]
          ELSE [eff[p] EXCEPT !.debited = TRUE, !.debitExact = (delta = 0 - req[p].amount),
                              !.fullDebit = (req[p].cur = req[p].amount /\ req[p].amount > 0),
                              !.racedDebit = eff[p].overlap, !.overlap = {}]
     ELSE IF pc[q] \in WritePcs /\ TargetKey(q) = k
          THEN [eff[q] EXCEPT !.overlap = @ \cup {<<p, isAddition>>}]
          ELSE eff[q]]

\* db-service.ts updatePrivateBalance: the UPDATE or the INSERT
UpbWrite(p, isAddition, next, sig, t) ==
  LET k == TargetKey(p)
  IN /\ IF req[p].curExists
        THEN /\ balances' = [balances EXCEPT ![k].balance = req[p].newBalance]
             /\ eff' = Written(p, k, isAddition, req[p].newBalance - balances[k].balance)
             /\ applied' = [applied EXCEPT ![k] = @ + Delta(req[p].amount, isAddition)]
             /\ Continue(p, next, [req[p] EXCEPT !.signature = sig, !.curExists = FALSE,
                                                  !.cur = 0, !.newBalance = 0])
        ELSE IF BalanceRowExists(k)
        THEN /\ Fail(p, "unique_violation")
             /\ UNCHANGED <<balances, eff, applied>>
        ELSE /\ balances' = balances @@ (k :> [balance |-> req[p].amount, lastCommitmentIndex |-> 0])
             /\ eff' = Written(p, k, isAddition, req[p].amount)
             /\ applied' = [applied EXCEPT ![k] = @ + Delta(req[p].amount, isAddition)]
             /\ Continue(p, next, [req[p] EXCEPT !.signature = sig, !.curExists = FALSE,
                                                  !.cur = 0, !.newBalance = 0])
     /\ now' = t
     /\ UNCHANGED <<pools, log, started>>

\* ---- the pool registry statements

\* a variant of UpdateTokenPoolShielded whose UPDATE has no WHERE clause
UpdateTokenPoolShieldedAll(p, next) ==
  /\ pools' = [m \in DOMAIN pools |->
                 [pools[m] EXCEPT !.totalShielded = @ + req[p].amount]]
  /\ eff' = [eff EXCEPT ![p].pooled = TRUE, ![p].poolExact = PoolRowExists(req[p].mint)]
  /\ Continue(p, next, req[p])
  /\ UNCHANGED <<balances, log, now, applied, started>>

\* db-service.ts updateTokenPoolShielded: UPDATE ... WHERE token_mint (no row, no change, no error)
UpdateTokenPoolShielded(p, next) ==
  LET m == req[p].mint
  IN /\ pools' = IF PoolRowExists(m)
                 THEN [pools EXCEPT ![m].totalShielded = @ + req[p].amount]
                 ELSE pools
     /\ eff' = [eff EXCEPT ![p].pooled = TRUE, ![p].poolExact = PoolRowExists(m)]
     /\ Continue(p, next, req[p])
     /\ UNCHANGED <<balances, log, now, applied, started>>

\* db-service.ts updateTokenPoolUnshielded: UPDATE ... WHERE token_mint
UpdateTokenPoolUnshielded(p, next) ==
  LET m == req[p].mint
  IN /\ pools' = IF PoolRowExists(m)
                 THEN [pools EXCEPT ![m].totalUnshielded = @ + req[p].amount]
                 ELSE pools
     /\ eff' = [eff EXCEPT ![p].pooled = TRUE, ![p].poolExact = PoolRowExists(m)]
     /\ Continue(p, next, req[p])
     /\ UNCHANGED <<balances, log, now, applied, started>>

\* relayer.ts getOrCreateTokenPool: getTokenPool, return it when found
GetOrCreateLookup(p, found, missing, sig, t) ==
  /\ IF PoolRowExists(req[p].mint)
     THEN Continue(p, found, [req[p] EXCEPT !.signature = sig])
     ELSE Continue(p, missing, req[p])
  /\ now' = IF PoolRowExists(req[p].mint) THEN t ELSE now
  /\ UNCHANGED <<balances, pools, log, eff, applied, started>>

\* db-service.ts createTokenPool: INSERT INTO token_pools (totals default to 0)
CreateTokenPool(p, next, sig, t) ==
  LET m == req[p].mint
  IN /\ IF MintTaken(m)
        THEN /\ Fail(p, "unique_violation")
             /\ UNCHANGED <<pools, eff>>
        ELSE /\ pools' = pools @@ (m :> [decimals |-> req[p].decimals,
                                         poolAddress |-> <<"elusiv-pool", m>>,
                                         totalShielded |-> 0, totalUnshielded |-> 0])
             /\ eff' = [eff EXCEPT ![p].createdPool = TRUE]
             /\ Continue(p, next, [req[p] EXCEPT !.signature = sig])
     /\ now' = IF MintTaken(m) THEN now ELSE t
     /\ UNCHANGED <<balances, log, applied, started>>

\* ---- the transaction log statements

\* relayer.ts: getTokenPool for the symbol, then recordTransaction reads Date.now()
ResolveSymbol(p, next) ==
  \E t \in DateNow :
    /\ Continue(p, next, [req[p] EXCEPT !.tokenSymbol = TokenSymbol(req[p].mint),
                                         !.timestamp = t])
    /\ now' = t
    /\ UNCHANGED <<balances, pools, log, eff, applied, started>>

\* a variant of InsertRow that keeps one row per owner, replacing the owner's row
InsertRowPerOwner(l, row) ==
  IF \E i \in DOMAIN l : l[i].owner = row.owner
  THEN [i \in DOMAIN l |-> IF l[i].owner = row.owner THEN row ELSE l[i]]
  ELSE Append(l, row)

\* db-service.ts recordTransaction: INSERT INTO transactions adds a row
InsertRow(l, row) == Append(l, row)

\* the row recordTransaction inserts for request p
LogRow(p) ==
  [owner |-> req[p].owner, type |-> req[p].op, tokenMint |-> req[p].mint,
   tokenSymbol |-> req[p].tokenSymbol, amount |-> req[p].amount,
   timestamp |-> req[p].timestamp,
   recipient |-> IF req[p].op = "send" THEN req[p].recipient ELSE NoRecipient,
   signature |-> req[p].signature]

\* db-service.ts recordTransaction: INSERT INTO transactions, then the 200 response
RecordTransaction(p) ==
  /\ IF SignatureTaken(req[p].signature)
     THEN /\ Fail(p, "unique_violation")
          /\ eff' = [eff EXCEPT ![p].dupSig = InLog(req[p].signature)]
          /\ log' = log
     ELSE /\ log' = InsertRow(log, LogRow(p))
          /\ eff' = [eff EXCEPT ![p].logged = TRUE, ![p].dupSig = InLog(req[p].signature)]
          /\ Continue(p, "accepted", req[p])
  /\ UNCHANGED <<balances, pools, now, applied, started>>

\* getTransactions called without tokenMint
NoMint == "any"

\* the limit argument of getTransactions
Limits == {1, 2, 3}

Min(a, b) == IF a <= b THEN a ELSE b

\* db-service.ts getTransactions: WHERE owner = ... [AND token_mint = ...]
Matching(owner, mint) ==
  {i \in DOMAIN log : log[i].owner = owner /\ (mint = NoMint \/ log[i].tokenMint = mint)}

\* db-service.ts getTransactions: ORDER BY timestamp DESC; the order of the rows
\* that have the same timestamp is the database's choice
Ordered(S) ==
  {s \in [1..Cardinality(S) -> S] :
     \A i, j \in 1..Cardinality(S) :
       i < j => (s[i] # s[j] /\ log[s[i]].timestamp >= log[s[j]].timestamp)}

\* db-service.ts getTransactions: the results the query may return
GetTransactions(owner, mint, limit) ==
  {[i \in 1..Min(limit, Cardinality(Matching(owner, mint))) |-> log[s[i]]] :
     s \in Ordered(Matching(owner, mint))}

\* ---- the handlers, statement by statement

ShieldRead(p) == pc[p] = "sh_read" /\ UpbRead(p, TRUE, "sh_write")
ShieldWrite(p) == pc[p] = "sh_write" /\ UpbWrite(p, TRUE, "sh_pool", req[p].signature, now)
ShieldPool(p) == pc[p] = "sh_pool" /\ UpdateTokenPoolShielded(p, "sh_sym")
ShieldSymbol(p) == pc[p] = "sh_sym" /\ ResolveSymbol(p, "sh_rec")
ShieldRecord(p) == pc[p] = "sh_rec" /\ RecordTransaction(p)

SendDebitRead(p) == pc[p] = "sd_dread" /\ UpbRead(p, FALSE, "sd_dwrite")
SendDebitWrite(p) == pc[p] = "sd_dwrite" /\ UpbWrite(p, FALSE, "sd_cread", req[p].signature, now)
SendCreditRead(p) == pc[p] = "sd_cread" /\ UpbRead(p, TRUE, "sd_cwrite")
SendCreditWrite(p) ==
  /\ pc[p] = "sd_cwrite"
  /\ \E t \in DateNow : UpbWrite(p, TRUE, "sd_sym", Simulated("simulated-send", t), t)
SendSymbol(p) == pc[p] = "sd_sym" /\ ResolveSymbol(p, "sd_rec")
SendRecord(p) == pc[p] = "sd_rec" /\ RecordTransaction(p)

UnshieldRead(p) == pc[p] = "un_read" /\ UpbRead(p, FALSE, "un_write")
UnshieldWrite(p) == pc[p] = "un_write" /\ UpbWrite(p, FALSE, "un_pool", req[p].signature, now)
UnshieldPool(p) == pc[p] = "un_pool" /\ UpdateTokenPoolUnshielded(p, "un_get")
UnshieldGetPool(p) ==
  /\ pc[p] = "un_get"
  /\ \E t \in DateNow :
       GetOrCreateLookup(p, "un_sym", "un_create", Simulated("simulated-unshield", t), t)
UnshieldCreatePool(p) ==
  /\ pc[p] = "un_create"
  /\ \E t \in DateNow : CreateTokenPool(p, "un_sym", Simulated("simulated-unshield", t), t)
UnshieldSymbol(p) == pc[p] = "un_sym" /\ ResolveSymbol(p, "un_rec")
UnshieldRecord(p) == pc[p] = "un_rec" /\ RecordTransaction(p)

PoolGet(p) == pc[p] = "pl_get" /\ GetOrCreateLookup(p, "accepted", "pl_create", req[p].signature, now)
PoolInsert(p) == pc[p] = "pl_create" /\ CreateTokenPool(p, "accepted", req[p].signature, now)

\* the statements of the requests in flight
Step(p) ==
       \/ ShieldRead(p) \/ ShieldWrite(p) \/ ShieldPool(p) \/ ShieldSymbol(p) \/ ShieldRecord(p)
       \/ SendDebitRead(p) \/ SendDebitWrite(p) \/ SendCreditRead(p) \/ SendCreditWrite(p)
       \/ SendSymbol(p) \/ SendRecord(p)
       \/ UnshieldRead(p) \/ UnshieldWrite(p) \/ UnshieldPool(p) \/ UnshieldGetPool(p)
       \/ UnshieldCreatePool(p) \/ UnshieldSymbol(p) \/ UnshieldRecord(p)
       \/ PoolGet(p) \/ PoolInsert(p)

\* every amount the request layer lets through (its check is `!amount`)
Next ==
  \E p \in Procs :
    \/ ShieldNotify(p, Amounts, Mints) \/ Send(p, Amounts, Mints) \/ Unshield(p, Amounts, Mints) \/ PoolCreate(p, Mints)
    \/ Step(p)

Spec == Init /\ [][Next]_vars

\* the same system when the clients send no negative amount
NextPositive ==
  \E p \in Procs :
    \/ ShieldNotify(p, PositiveAmounts, Mints) \/ Send(p, PositiveAmounts, Mints)
    \/ Unshield(p, PositiveAmounts, Mints) \/ PoolCreate(p, Mints)
    \/ Step(p)

SpecPositive == Init /\ [][NextPositive]_vars

\* the amounts of the scenario: shield 100, send 30, unshield 50
ScenarioAmounts == {30, 50, 100}

\* the same system serving one request at a time, with the amounts of the scenario
NextScenario ==
  \E p \in {1} :
    \/ ShieldNotify(p, ScenarioAmounts, Mints) \/ Send(p, ScenarioAmounts, Mints)
    \/ Unshield(p, ScenarioAmounts, Mints) \/ PoolCreate(p, Mints)
    \/ Step(p)

SpecScenario == Init /\ [][NextScenario]_vars

\* the same system with two mints and one amount
FrameAmounts == {1}

NextFrame ==
  \E p \in Procs :
    \/ ShieldNotify(p, FrameAmounts, TwoMints) \/ Send(p, FrameAmounts, TwoMints)
    \/ Unshield(p, FrameAmounts, TwoMints) \/ PoolCreate(p, TwoMints)
    \/ Step(p)

SpecFrame == Init /\ [][NextFrame]_vars

\* ---- the claims

InFlight(p) == pc[p] \notin Free

\* the ledger mutation of request p's operation has been applied in full
LedgerApplied(p) ==
  CASE req[p].op = "shield" -> eff[p].credited
    [] req[p].op = "send" -> eff[p].debited /\ eff[p].credited
    [] req[p].op = "unshield" -> eff[p].debited
    [] OTHER -> FALSE

\* request p has changed a table
Touched(p) ==
  \/ eff[p].debited \/ eff[p].credited
  \/ (eff[p].pooled /\ eff[p].poolExact)
  \/ eff[p].createdPool \/ eff[p].logged

\* C1: two concurrent debits of the full balance of one (owner, mint) never both
\* succeed: there are no two requests p, q whose debits of the same row both read a
\* positive balance equal to their (equal) amounts and both wrote, q's debit being
\* the only write to the row between p's read and p's write.
C1_NoDoubleFullDebit ==
  \A p, q \in Procs :
    ~ /\ p # q /\ InFlight(p) /\ InFlight(q)
      /\ eff[p].debited /\ eff[q].debited
      /\ eff[p].fullDebit /\ eff[q].fullDebit
      /\ req[p].owner = req[q].owner /\ req[p].mint = req[q].mint
      /\ req[p].amount = req[q].amount
      /\ eff[p].racedDebit = {<<q, FALSE>>}

\* C2: no update is lost: the stored balance of every row is the sum of the credits
\* minus the sum of the debits of the updatePrivateBalance calls that succeeded on it.
C2_NoLostUpdate ==
  \A k \in DOMAIN balances : balances[k].balance = applied[k]

\* C3: the stored balance of every existing row is >= 0 in every reachable state.
C3_BalanceNonNegative ==
  \A k \in DOMAIN balances : balances[k].balance >= 0

\* C4: an accepted send changed the sender's stored balance by exactly -amount and
\* the recipient's by exactly +amount, whatever was interleaved with its steps.
C4_SendConserves ==
  \A p \in Procs :
    (pc[p] = "accepted" /\ req[p].op = "send") => (eff[p].debitExact /\ eff[p].creditExact)

\* C5: an accepted shield raised totalShielded of its mint by exactly amount and the
\* balance of (owner, mint) by exactly amount, for any mint, with a pool row or not.
C5_ShieldRaisesPoolAndBalance ==
  \A p \in Procs :
    (pc[p] = "accepted" /\ req[p].op = "shield") => (eff[p].poolExact /\ eff[p].creditExact)

\* C6: a debit of more than the balance of an existing row fails with "Insufficient
\* private balance" and writes nothing: the request whose debit read such a row has
\* failed with that error and has changed no table.
C6_OverdraftRejected ==
  \A p \in Procs :
    eff[p].overdrawn =>
      /\ pc[p] = "failed"
      /\ req[p].error = "Insufficient private balance"
      /\ ~eff[p].debited /\ ~Touched(p)

C6_Witness ==
  \E p \in Procs :
    /\ eff[p].overdrawn /\ pc[p] = "failed"
    /\ DOMAIN balances # {}
    /\ \A k \in DOMAIN balances : balances[k].balance >= 0 /\ balances[k].balance = applied[k]

\* C7: a debit against an (owner, mint) with no row fails with "Cannot deduct from
\* non-existent balance" and creates no row: the request whose debit found no row
\* has failed with that error and has changed no table.
C7_UnknownBalanceRejected ==
  \A p \in Procs :
    eff[p].noRow =>
      /\ pc[p] = "failed"
      /\ req[p].error = "Cannot deduct from non-existent balance"
      /\ ~eff[p].debited /\ ~Touched(p)

C7_Witness ==
  \E p \in Procs :
    /\ eff[p].noRow /\ pc[p] = "failed"
    /\ DOMAIN balances = {}

UniqueSignatures ==
  \A i, j \in DOMAIN log : log[i].signature = log[j].signature => i = j

\* C8: recording a signature already in the log fails with a unique violation and
\* adds no row; no two log rows ever share a signature, whatever the interleaving of
\* the record calls.
C8_DuplicateSignatureRejected ==
  /\ UniqueSignatures
  /\ \A p \in Procs :
       eff[p].dupSig =>
         /\ pc[p] = "failed"
         /\ req[p].error = "unique_violation"
         /\ ~eff[p].logged

C8_Witness ==
  \E p \in Procs :
    /\ eff[p].dupSig /\ pc[p] = "failed"
    /\ Len(log) >= 1

\* C9: the ledger mutation precedes the log write: a request whose row is in the log
\* has applied its balance changes (credit for shield, debit for unshield, debit and
\* credit for send), and every log row's balance rows exist (the owner's, and the
\* recipient's for a send), as an applied mutation leaves them.
C9_LedgerBeforeLog ==
  /\ \A p \in Procs : eff[p].logged => LedgerApplied(p)
  /\ \A i \in DOMAIN log :
       /\ BalanceRowExists(<<log[i].owner, log[i].tokenMint>>)
       /\ log[i].type = "send" => BalanceRowExists(<<log[i].recipient, log[i].tokenMint>>)

C9_Witness ==
  \E p \in Procs :
    /\ pc[p] = "accepted" /\ req[p].op = "send"
    /\ eff[p].logged /\ eff[p].debited /\ eff[p].credited
    /\ \E i \in DOMAIN log : log[i].type = "send"

\* C10: an operation that reports failure has changed no table, and an accepted
\* shield, send or unshield has applied its ledger mutation and written its log row.
C10_AllOrNothing ==
  \A p \in Procs :
    /\ pc[p] = "failed" => ~Touched(p)
    /\ (pc[p] = "accepted" /\ req[p].op # "pool") => (LedgerApplied(p) /\ eff[p].logged)

\* C11: getTransactions returns at most limit rows, all of the requested owner (and
\* mint when given), with strictly descending timestamps: no two adjacent rows have
\* the same timestamp, for every reachable log.
C11_ListStrictlyDescending ==
  \A owner \in Owners, mint \in Mints \cup {NoMint}, limit \in Limits :
    \A r \in GetTransactions(owner, mint, limit) :
      /\ Len(r) <= limit
      /\ \A i \in 1..Len(r) :
           r[i].owner = owner /\ (mint # NoMint => r[i].tokenMint = mint)
      /\ \A i \in 1..(Len(r) - 1) : r[i].timestamp > r[i + 1].timestamp

RECURSIVE SumBalances(_, _)
\* the sum of the stored balances of mint m over the owners in S
SumBalances(S, m) ==
  IF S = {} THEN 0
  ELSE LET o == CHOOSE x \in S : TRUE
       IN (IF BalanceRowExists(<<o, m>>) THEN balances[<<o, m>>].balance ELSE 0)
          + SumBalances(S \ {o}, m)

\* totalShielded minus totalUnshielded of mint m's pool (nothing without a pool)
PoolNet(m) ==
  IF PoolRowExists(m) THEN pools[m].totalShielded - pools[m].totalUnshielded ELSE 0

\* no request is in flight
Quiescent == \A p \in Procs : pc[p] \in Free

\* C12: whenever no operation is in flight, for every mint the sum of the balances
\* of all owners equals totalShielded minus totalUnshielded of the mint's pool.
C12_PoolMatchesLedger ==
  Quiescent => \A m \in Mints : SumBalances(Owners, m) = PoolNet(m)

\* C13: totalShielded and totalUnshielded of every pool never decrease from one
\* state to the next, whatever amount passed the request layer's check, and both
\* are always >= 0.
C13_TotalsMonotone ==
  [][\A m \in DOMAIN pools :
       /\ m \in DOMAIN pools'
       /\ pools'[m].totalShielded >= pools[m].totalShielded
       /\ pools'[m].totalUnshielded >= pools[m].totalUnshielded
       /\ pools'[m].totalShielded >= 0
       /\ pools'[m].totalUnshielded >= 0]_vars

\* C14: updateTokenPoolShielded and updateTokenPoolUnshielded fail with UnknownMint
\* when the mint has no pool row: a request whose pool statement found no row has
\* failed with that error.
C14_UnknownMintRejected ==
  \A p \in Procs :
    (eff[p].pooled /\ ~eff[p].poolExact) =>
      (pc[p] = "failed" /\ req[p].error = "UnknownMint")

\* C15: updatePrivateBalance rejects an amount that is zero or negative, for credit
\* and debit: no request in flight has written a balance row with such an amount.
C15_NonPositiveAmountRejected ==
  \A p \in Procs :
    (InFlight(p) /\ (eff[p].credited \/ eff[p].debited)) => req[p].amount > 0

\* C16: concurrent getOrCreateTokenPool calls for a mint without a pool leave one
\* row: no more requests have inserted a pool row than there are rows (one per mint),
\* a POST /pool/create that was answered 200 has a row to return, and one that
\* failed lost the race: it failed on the unique constraint, inserted nothing, and
\* the winner's row exists.
C16_OnePoolPerMint ==
  /\ Cardinality({p \in Procs : eff[p].createdPool}) <= Cardinality(DOMAIN pools)
  /\ \A p \in Procs :
       /\ (req[p].op = "pool" /\ pc[p] = "accepted") => DOMAIN pools # {}
       /\ (req[p].op = "pool" /\ pc[p] = "failed") =>
            /\ req[p].error = "unique_violation"
            /\ ~eff[p].createdPool
            /\ DOMAIN pools # {}

C16_Witness ==
  \E p, q \in Procs :
    /\ p # q
    /\ eff[p].createdPool /\ req[p].op = "pool" /\ pc[p] = "accepted"
    /\ req[q].op = "pool" /\ pc[q] = "failed" /\ req[q].error = "unique_violation"
    /\ Cardinality(DOMAIN pools) = 1

\* the three requests of the scenario, and no other, have run and were accepted:
\* A shields 100, A sends 30 to B, A unshields 50
ScenarioRan ==
  /\ started = 3 /\ Quiescent /\ Len(log) = 3
  /\ log[1].type = "shield" /\ log[1].owner = "A" /\ log[1].amount = 100
  /\ log[2].type = "send" /\ log[2].owner = "A" /\ log[2].amount = 30
  /\ log[2].recipient = "B"
  /\ log[3].type = "unshield" /\ log[3].owner = "A" /\ log[3].amount = 50
  /\ \A i \in 1..3 : log[i].tokenMint = "SOL"

\* C17: after the scenario from an empty system, balance(A) = 20, balance(B) = 30,
\* totalShielded = 100 and totalUnshielded = 50.
C17_Scenario ==
  ScenarioRan =>
    /\ BalanceRowExists(<<"A", "SOL">>) /\ balances[<<"A", "SOL">>].balance = 20
    /\ BalanceRowExists(<<"B", "SOL">>) /\ balances[<<"B", "SOL">>].balance = 30
    /\ PoolRowExists("SOL")
    /\ pools["SOL"].totalShielded = 100
    /\ pools["SOL"].totalUnshielded = 50

\* C18: the log is append-only: every step leaves each row of the log in place and
\* unchanged (same owner, type, mint, symbol, amount, timestamp, recipient and
\* signature), so the log never gets shorter.
C18_LogAppendOnly ==
  [][/\ Len(log') >= Len(log)
     /\ \A i \in DOMAIN log : log'[i] = log[i]]_vars

\* a request has just appended its row to a log that held rows already
C18_Witness ==
  /\ Len(log) >= 2
  /\ \E p \in Procs : eff[p].logged /\ pc[p] = "accepted"
  /\ log[1].signature # log[2].signature

\* C19: an accepted unshield lowered the balance of (sender, mint) by exactly amount
\* and raised totalUnshielded of the mint's pool by exactly amount, for any mint, with
\* a pool row at the start of the unshield or not.
C19_UnshieldLowersBalanceRaisesPool ==
  \A p \in Procs :
    (pc[p] = "accepted" /\ req[p].op = "unshield") => (eff[p].debitExact /\ eff[p].poolExact)

\* C20: a send whose sender debit failed (balance too low, or no row) stops there:
\* it has failed, has written neither the sender's nor the recipient's row, and has
\* no row in the log.
C20_FailedDebitAbortsSend ==
  \A p \in Procs :
    (req[p].op = "send" /\ (eff[p].overdrawn \/ eff[p].noRow)) =>
      /\ pc[p] = "failed"
      /\ req[p].error \in {"Insufficient private balance",
                           "Cannot deduct from non-existent balance"}
      /\ ~eff[p].debited /\ ~eff[p].credited /\ ~eff[p].logged

C20_Witness ==
  \E p \in Procs :
    /\ req[p].op = "send" /\ eff[p].overdrawn /\ pc[p] = "failed"
    /\ \E o \in Owners : ~BalanceRowExists(<<o, "SOL">>)
    /\ log # <<>>
    /\ \A i \in DOMAIN log : log[i].type # "send"

\* C21: every operation runs Validated -> LedgerMutated -> (PoolMutated) -> Logged ->
\* Accepted and is rejected only from Validated or LedgerMutated: a request that has
\* run its pool statement has applied its ledger mutation, a request whose row is in
\* the log has run its pool statement (shield, unshield) and is accepted, and a
\* request that ended in failure had neither run its pool statement nor written its
\* log row.
C21_RejectedOnlyBeforePool ==
  \A p \in Procs :
    /\ eff[p].pooled => LedgerApplied(p)
    /\ (eff[p].logged /\ req[p].op \in {"shield", "unshield"}) => eff[p].pooled
    /\ eff[p].logged => pc[p] = "accepted"
    /\ pc[p] = "failed" => (~eff[p].pooled /\ ~eff[p].logged)

\* C22: a deposit is credited at most once: no two shield notifications carrying the
\* same deposit signature have both raised a balance by their amount, and the log
\* holds at most one row with that signature.
C22_DepositCreditedOnce ==
  /\ \A p, q \in Procs :
       (p # q /\ eff[p].deposit # NoSignature /\ eff[p].deposit = eff[q].deposit) =>
         ~(eff[p].credited /\ eff[p].creditExact /\ eff[q].credited /\ eff[q].creditExact)
  /\ \A sig \in DepositSigs :
       Cardinality({i \in DOMAIN log : log[i].signature = sig}) <= 1

\* the balance rows the operation of request p is about
OwnKeys(p) ==
  IF req[p].op = "send"
  THEN {<<req[p].owner, req[p].mint>>, <<req[p].recipient, req[p].mint>>}
  ELSE IF req[p].op \in {"shield", "unshield"} THEN {<<req[p].owner, req[p].mint>>}
  ELSE {}

\* the balance rows and the pool rows a step has inserted or changed
ChangedBalances ==
  {k \in DOMAIN balances' : k \notin DOMAIN balances \/ balances'[k] # balances[k]}
ChangedPools ==
  {m \in DOMAIN pools' : m \notin DOMAIN pools \/ pools'[m] # pools[m]}

\* C23: operations touch only their own keys: a step of a request changes no balance
\* row other than (owner, mint) (and (recipient, mint) for a send) and no pool other
\* than its mint's, a step of a send changes no pool, no step removes a row, and
\* lastCommitmentIndex is 0 at creation and in every later state.
C23_OwnKeysOnly ==
  [][/\ \A p \in Procs :
          (pc'[p] # pc[p] /\ pc[p] \notin Free) =>
            /\ ChangedBalances \subseteq OwnKeys(p)
            /\ ChangedPools \subseteq {req[p].mint}
            /\ req[p].op = "send" => ChangedPools = {}
     /\ (\A p \in Procs : pc[p] \in Free \/ pc'[p] = pc[p]) =>
          (ChangedBalances = {} /\ ChangedPools = {})
     /\ DOMAIN balances \subseteq DOMAIN balances'
     /\ DOMAIN pools \subseteq DOMAIN pools'
     /\ \A k \in DOMAIN balances' : balances'[k].lastCommitmentIndex = 0]_vars

\* a shield has credited its row and has just raised the total of its mint's pool,
\* while the other mint's pool stands as it was created
C23_Witness ==
  \E p \in Procs :
    /\ pc[p] = "sh_sym" /\ eff[p].credited /\ eff[p].poolExact
    /\ pools[req[p].mint].totalShielded = req[p].amount
    /\ \E m \in DOMAIN pools : m # req[p].mint /\ pools[m].totalShielded = 0
    /\ DOMAIN balances = {<<req[p].owner, req[p].mint>>}

====
